---- MODULE Spec2Model ----
(***************************************************************************)
(* A model of the silero speech-to-text crate: the label decoder           *)
(* (src/decoder.rs), the audio ingestion helpers (src/audio/mod.rs) and    *)
(* the batching pipeline Silero::infer / process_batch / stt (src/lib.rs). *)
(*                                                                         *)
(* Strings are sequences of one-character strings, so that replace() and   *)
(* trim() act on characters.  Indices are 0-based as in the source:        *)
(* entry i of a Rust Vec v is v[i + 1] here.                               *)
(***************************************************************************)
EXTENDS Integers, Sequences, FiniteSets, TLC

VARIABLES
    labels,     \* the Vec<String> handed to Decoder::new
    dec,        \* Result<Decoder>: [ok |-> FALSE] or the constructed Decoder
    argm,       \* the token path of the latest decode call
    text,       \* the String the latest decode call returned
    dpc,        \* position of the decoder client: "init", "failed", "constructed", "decoded"
    aop,        \* the audio entry point called: "read_audio" or "transcode_audio"
    ext,        \* path.extension() of the input path
    opened,     \* whether the input file has been opened
    stream,     \* the AudioStream read_audio_stream consumes, once opened
    ares,       \* what the entry point returned
    avg,        \* what average_channels returned, once called
    resampled,  \* whether resample() has been called
    outFile,    \* the output file of transcode_audio: whether it exists, and is complete
    apc,        \* position in the audio entry point
    nbatch,     \* infer: batch.len(), the number of submitted items
    tshape,     \* infer: the engine output's axes [labels, tokens, batches]
    ii,         \* infer: the outer loop's i
    jj,         \* infer: the inner loop's j
    tokens,     \* infer: the reused Vec `tokens`
    probs,      \* infer: the slice the latest arg-max ran over
    token,      \* infer: the index the latest arg-max chose
    ipaths,     \* infer: per finished or running item, the indices chosen for it
    itexts,     \* infer: the Vec<String> `batch` of decoded texts
    ires,       \* infer: what infer returned
    ipc,        \* infer: position: "run", "loop", "done"
    inputs,     \* stt: the file stems of the input paths, in order
    fs,         \* stt: the text files of the output directory, by stem
    si,         \* stt: the position of the `for input in inputs` loop (1-based)
    nread,      \* stt: per input read so far, the number of samples read_audio gave
    chunks,     \* stt: the chunks of the current input not yet pushed
    batch,      \* stt: the Vec `batch` of pending chunks
    outputs,    \* stt: the Vec `outputs` of pending output paths
    submitted,  \* stt: the batches handed to the inference engine, in order
    tensors,    \* stt: the shapes of the input tensors built for them, in order
    failure,    \* stt: the first error a callee of stt returned, or "none"
    sres,       \* stt: what stt returned
    spc,        \* stt: position: "input", "chunks", "done"
    wav,        \* wav: the file behind WavContext: its spec() and its samples
    wavOpen,    \* wav: "no", "failed" (from_path returned Err) or "open"
    wavMeta,    \* wav: what the accessors sample_rate/duration/channels gave
    wavPos,     \* wav: the number of samples the reader has consumed
    wavRet,     \* wav: what the latest call of next() returned
    wavCalls,   \* wav: the number of calls of next() so far
    state,      \* webm: WebmContext::state, the frame being emitted if any
    events,     \* webm: the container events read_event has given, in order
    sent,       \* webm: the event numbers of the packets sent to the codec
    frames,     \* webm: the frames the codec returned, in order
    yielded,    \* webm: the samples next() has yielded, in order
    webmRet     \* webm: how the sample sequence ended, or "running"

decoderVars == <<labels, dec, argm, text, dpc>>

audioVars == <<aop, ext, opened, stream, avg, ares, resampled, outFile, apc>>

inferVars == <<nbatch, tshape, ii, jj, tokens, probs, token, ipaths, itexts, ires, ipc>>

sttVars ==
    <<inputs, fs, si, nread, chunks, batch, outputs, submitted, tensors, failure, sres, spc>>

wavVars == <<wav, wavOpen, wavMeta, wavPos, wavRet, wavCalls>>

webmVars == <<state, events, sent, frames, yielded, webmRet>>

vars == <<decoderVars, audioVars, inferVars, sttVars, wavVars, webmVars>>

---------------------------------------------------------------------------
(* Bounds of the decoder model *)

\* longest vocabulary handed to Decoder::new
MaxLabels == 4
\* longest token path handed to decode, the example paths apart
MaxPath == 3

\* the label strings vocabularies are drawn from
LabelAlphabet == {<<"_">>, <<"2">>, <<"a">>, <<"b">>}

\* vocabularies with a label that is, or holds, the character decode uses as
\* its joiner marker, and one with a label that is a space
JoinerVocabularies ==
    {<< <<"_">>, <<"$">>, <<"2">>, <<"a">> >>,
     << <<"_">>, <<"a", "$">>, <<"2">> >>,
     << <<"_">>, <<" ">>, <<"2">>, <<"a">> >>}

\* the vocabularies handed to Decoder::new: every vocabulary of at most
\* MaxLabels labels of the alphabet, and the vocabularies above
Vocabularies ==
    UNION {[1..n -> LabelAlphabet] : n \in 0..MaxLabels} \cup JoinerVocabularies

\* the vocabulary ["_","a","2","b"] of the decoder examples
ExampleLabels == << <<"_">>, <<"a">>, <<"2">>, <<"b">> >>

\* the token paths of the decoder examples
ExamplePaths == {<<2, 1>>, <<1, 2>>, <<1, 1, 3>>, <<1, 0, 3>>, <<1, 0, 1, 3>>, <<1, 1, 0, 3>>}

\* token paths over the valid indices 0..n-1 of a vocabulary of n labels: every
\* path of at most MaxPath tokens, and the example paths
Paths(n) ==
    UNION {[1..k -> 0..(n - 1)] : k \in 0..MaxPath}
        \cup {p \in ExamplePaths : \A k \in 1..Len(p) : p[k] < n}

---------------------------------------------------------------------------
(* src/decoder.rs *)

\* Option<usize>::None of Iterator::position
None == -1

\* labels.iter().position(|label| label == s): the first index holding s
position(ls, s) ==
    IF \E k \in 1..Len(ls) : ls[k] = s
    THEN (CHOOSE k \in 1..Len(ls) : ls[k] = s /\ \A j \in 1..(k - 1) : ls[j] # s) - 1
    ELSE None

\* Decoder::new with the sentinel lookup left out
DecoderNewNoSentinel(ls) ==
    LET blank_idx == position(ls, <<"_">>) IN
    IF blank_idx = None THEN [ok |-> FALSE]
    ELSE [ok |-> TRUE, labels |-> ls, blank_idx |-> blank_idx,
          two_idx |-> position(ls, <<"2">>)]

\* Decoder::new with the two recorded indices exchanged
DecoderNewSwapped(ls) ==
    LET blank_idx == position(ls, <<"_">>)
        two_idx == position(ls, <<"2">>)
    IN  IF blank_idx = None THEN [ok |-> FALSE]
        ELSE IF two_idx = None THEN [ok |-> FALSE]
        ELSE [ok |-> TRUE, labels |-> ls, blank_idx |-> two_idx, two_idx |-> blank_idx]

\* Decoder::new: both lookups must find an entry (`.context(..)?`)
DecoderNew(ls) ==
    LET blank_idx == position(ls, <<"_">>)
        two_idx == position(ls, <<"2">>)
    IN  IF blank_idx = None THEN [ok |-> FALSE]
        ELSE IF two_idx = None THEN [ok |-> FALSE]
        ELSE [ok |-> TRUE, labels |-> ls, blank_idx |-> blank_idx, two_idx |-> two_idx]

\* a sentinel branch that re-emits the last piece after the push, the joiner
PushSentinelOffByOne(pieces) ==
    IF pieces = <<>>
    THEN Append(pieces, <<" ">>)
    ELSE LET withJoiner == Append(pieces, <<"$">>)
             last == withJoiner[Len(withJoiner)]
         IN  Append(withJoiner, last)

\* the pieces pushed for a sentinel token (decoder.rs 48-55)
PushSentinel(pieces) ==
    IF pieces = <<>>
    THEN Append(pieces, <<" ">>)
    ELSE LET withJoiner == Append(pieces, <<"$">>)
             last == withJoiner[Len(withJoiner) - 1]
         IN  Append(withJoiner, last)

\* a loop body in which a blank token pushes an empty piece
PushTokenBlankPiece(d, pieces, i) ==
    IF i = d.two_idx THEN PushSentinel(pieces)
    ELSE IF i # d.blank_idx THEN Append(pieces, d.labels[i + 1])
    ELSE Append(pieces, <<>>)

\* one iteration of decode's first loop (decoder.rs 47-59)
PushToken(d, pieces, i) ==
    IF i = d.two_idx THEN PushSentinel(pieces)
    ELSE IF i # d.blank_idx THEN Append(pieces, d.labels[i + 1])
    ELSE pieces

RECURSIVE PiecesFrom(_, _, _, _)
PiecesFrom(d, path, k, pieces) ==
    IF k > Len(path) THEN pieces
    ELSE PiecesFrom(d, path, k + 1, PushToken(d, pieces, path[k]))

\* the vector `pieces` after decode's first loop
Pieces(d, path) == PiecesFrom(d, path, 1, <<>>)

\* decode's second loop (decoder.rs 60-69): `last` is [some |-> FALSE] for
\* Option::None and [some |-> TRUE, v |-> piece] for Some(piece)
RECURSIVE CollapseFrom(_, _, _, _)
CollapseFrom(pieces, k, last, s) ==
    IF k > Len(pieces) THEN s
    ELSE LET curr == [some |-> TRUE, v |-> pieces[k]] IN
         IF last.some /\ curr = last
         THEN CollapseFrom(pieces, k + 1, last, s)
         ELSE CollapseFrom(pieces, k + 1, curr, s \o pieces[k])

Collapse(pieces) == CollapseFrom(pieces, 1, [some |-> FALSE], <<>>)

\* s.replace('$', "")
RemoveJoiner(s) == SelectSeq(s, LAMBDA c : c # "$")

IsWhitespace(c) == c \in {" ", "\t", "\n", "\r"}

RECURSIVE TrimStart(_)
TrimStart(s) ==
    IF s # <<>> /\ IsWhitespace(Head(s)) THEN TrimStart(Tail(s)) ELSE s

RECURSIVE TrimEnd(_)
TrimEnd(s) ==
    IF s # <<>> /\ IsWhitespace(s[Len(s)])
    THEN TrimEnd(SubSeq(s, 1, Len(s) - 1)) ELSE s

\* str::trim
Trim(s) == TrimEnd(TrimStart(s))

\* the final expression without the trim
FinishNoTrim(s) == RemoveJoiner(s)

\* decoder.rs 70: s.replace('$', "").trim().to_string()
Finish(s) == Trim(RemoveJoiner(s))

\* collapse of equal adjacent raw tokens (the usual CTC order)
RECURSIVE DedupTokens(_)
DedupTokens(path) ==
    IF Len(path) <= 1 THEN path
    ELSE IF path[1] = path[2] THEN DedupTokens(Tail(path))
    ELSE <<path[1]>> \o DedupTokens(Tail(path))

\* a decode that collapses repeated raw tokens before dropping blanks
decodeRawCollapse(d, path) == Finish(Collapse(Pieces(d, DedupTokens(path))))

\* Decoder::decode
decode(d, path) == Finish(Collapse(Pieces(d, path)))

---------------------------------------------------------------------------
(* src/audio/mod.rs *)

\* most channels a stream declares
MaxChannels == 2
\* most items (samples or errors) a stream yields
MaxItems == 4

\* i16::MAX and i32::MAX
I16Max == 32767
I32Max == 2147483647

\* Silero::new: sample_rate, the target rate of read_audio
sample_rate == 16000

\* an f32 is modelled as an exact fraction <<n, d>>, d > 0, in lowest terms
\* (rounding is not modelled)
RECURSIVE Gcd(_, _)
Gcd(a, b) == IF b = 0 THEN a ELSE Gcd(b, a % b)

Abs(x) == IF x < 0 THEN -x ELSE x

Frac(n, d) ==
    IF n = 0 THEN <<0, 1>>
    ELSE LET g == Gcd(Abs(n), d) IN <<n \div g, d \div g>>

\* f32 `+=`, over the least common denominator
FracAdd(a, b) ==
    LET l == (a[2] \div Gcd(a[2], b[2])) * b[2]
    IN  Frac(a[1] * (l \div a[2]) + b[1] * (l \div b[2]), l)

\* a division by 2 whatever the channel count
FracDivStereo(a, n) == Frac(a[1], a[2] * 2)

\* f32 `/= channels as f32`
FracDiv(a, n) == Frac(a[1], a[2] * n)

\* the Sample variants, as Ok items of a stream: an integer sample is n (d is
\* 1), a float sample is the fraction n/d
S16(v) == [err |-> FALSE, fmt |-> "S16", n |-> v, d |-> 1]
S32(v) == [err |-> FALSE, fmt |-> "S32", n |-> v, d |-> 1]
F32(n, d) == [err |-> FALSE, fmt |-> "F32", n |-> n, d |-> d]

\* an Err item of the stream
ErrItem == [err |-> TRUE, fmt |-> "none", n |-> 0, d |-> 1]

\* Sample::to_f32
to_f32(sample) ==
    CASE sample.fmt = "S16" -> Frac(sample.n, I16Max)
      [] sample.fmt = "S32" -> Frac(sample.n, I32Max)
      [] sample.fmt = "F32" -> Frac(sample.n, sample.d)

\* the Result<Sample> items streams are made of
ItemSet == {ErrItem, S16(I16Max), S16(-16384), F32(1, 4)}

\* the sample rates streams declare
Rates == {sample_rate, 48000}

Streams ==
    [channels : 1..MaxChannels,
     rate : Rates,
     items : UNION {[1..n -> ItemSet] : n \in 0..MaxItems}]

\* the inner loop, ending a frame at the end of the stream instead of failing
RECURSIVE RestOfFramePartial(_, _, _, _)
RestOfFramePartial(n, items, pos, sample) ==
    IF n = 0 THEN [ok |-> TRUE, pos |-> pos, sample |-> sample]
    ELSE IF pos >= Len(items) THEN [ok |-> TRUE, pos |-> pos, sample |-> sample]
    ELSE IF items[pos + 1].err THEN [ok |-> FALSE, error |-> "stream"]
    ELSE RestOfFramePartial(n - 1, items, pos + 1, FracAdd(sample, to_f32(items[pos + 1])))

\* average_channels' inner loop (mod.rs 54-56): n more samples of the frame;
\* `pos` items of the stream have been consumed
RECURSIVE RestOfFrame(_, _, _, _)
RestOfFrame(n, items, pos, sample) ==
    IF n = 0 THEN [ok |-> TRUE, pos |-> pos, sample |-> sample]
    ELSE IF pos >= Len(items) THEN [ok |-> FALSE, error |-> "invalid number of samples"]
    ELSE IF items[pos + 1].err THEN [ok |-> FALSE, error |-> "stream"]
    ELSE RestOfFrame(n - 1, items, pos + 1, FracAdd(sample, to_f32(items[pos + 1])))

\* average_channels' outer loop (mod.rs 52-59)
RECURSIVE AverageFrom(_, _, _, _)
AverageFrom(channels, items, pos, samples) ==
    IF pos >= Len(items) THEN [done |-> TRUE, ok |-> TRUE, samples |-> samples]
    ELSE IF items[pos + 1].err THEN [done |-> TRUE, ok |-> FALSE, error |-> "stream"]
    ELSE LET frame == RestOfFrame(channels - 1, items, pos + 1, to_f32(items[pos + 1])) IN
         IF ~frame.ok THEN [done |-> TRUE, ok |-> FALSE, error |-> frame.error]
         ELSE AverageFrom(channels, items, frame.pos,
                          Append(samples, FracDiv(frame.sample, channels)))

\* average_channels(stream): Result<Vec<f32>>
average_channels(st) == AverageFrom(st.channels, st.items, 0, <<>>)

\* what path.extension() followed by to_str() can give: no extension, an
\* extension that is not UTF-8, or a string
Extensions == {"<none>", "<not utf-8>", "wav", "weba", "webm", "mp3", "WAV", ""}

Supported(e) == e \in {"wav", "weba", "webm"}

\* the buffer resample() returns: the resampler is an external library
Resampled(from, to, samples) == <<"resampled", from, to, samples>>

---------------------------------------------------------------------------
(* src/lib.rs: Silero::infer *)

\* most items of a batch handed to infer
MaxBatch == 2
\* most frames (tokens per item) the engine returns
MaxTokens == 2

\* the scores of the engine's output: three values give every order and
\* every pattern of ties among the labels of a three-label vocabulary
Scores == {0, 1, 2}

\* the vocabularies of the Decoder infer runs with
InferVocabularies ==
    {<< <<"_">>, <<"2">> >>, << <<"a">>, <<"2">>, <<"_">> >>}

\* the slices tensor.slice(s![.., j, i]) over nl labels, as sequences
ScoreVectors(nl) == [1..nl -> Scores]

\* the closure of reduce with `>` for `>=`: a later equal score wins
ReduceStepStrict(acc, ib, b) ==
    IF acc.a > b THEN acc ELSE [ia |-> ib, a |-> b]

\* the closure of reduce (lib.rs 86): |(ia, a), (ib, b)| if a >= b { (ia, a) } else { (ib, b) }
ReduceStep(acc, ib, b) ==
    IF acc.a >= b THEN acc ELSE [ia |-> ib, a |-> b]

\* Iterator::reduce over probs.iter().enumerate(), from element k on
RECURSIVE ReduceFrom(_, _, _)
ReduceFrom(ps, k, acc) ==
    IF k > Len(ps) THEN acc
    ELSE ReduceFrom(ps, k + 1, ReduceStep(acc, k - 1, ps[k]))

\* lib.rs 83-87: the index reduce ends with (unwrap: the slice is not empty)
ArgMax(ps) == ReduceFrom(ps, 2, [ia |-> 0, a |-> ps[1]]).ia

\* the token buffer kept from one item to the next
KeepTokens(toks) == toks

\* lib.rs 92: tokens.clear()
ClearTokens(toks) == <<>>

---------------------------------------------------------------------------
(* The parts of the state a specification does not follow stay as they are *)

\* no audio entry point has been called
AudioIdle ==
    /\ aop = "none"
    /\ ext = "none"
    /\ opened = FALSE
    /\ stream = [channels |-> 1, rate |-> 0, items |-> <<>>]
    /\ avg = [done |-> FALSE]
    /\ ares = [done |-> FALSE]
    /\ resampled = FALSE
    /\ outFile = [exists |-> FALSE, complete |-> FALSE]
    /\ apc = "idle"

\* infer has not been called
InferIdle ==
    /\ nbatch = 0
    /\ tshape = [labels |-> 0, tokens |-> 0, batches |-> 0]
    /\ ii = 0
    /\ jj = 0
    /\ tokens = <<>>
    /\ probs = <<>>
    /\ token = 0
    /\ ipaths = <<>>
    /\ itexts = <<>>
    /\ ires = [done |-> FALSE]
    /\ ipc = "idle"

\* stt has not been called
SttIdle ==
    /\ inputs = <<>>
    /\ fs = <<>>
    /\ si = 0
    /\ nread = <<>>
    /\ chunks = <<>>
    /\ batch = <<>>
    /\ outputs = <<>>
    /\ submitted = <<>>
    /\ tensors = <<>>
    /\ failure = "none"
    /\ sres = [done |-> FALSE]
    /\ spc = "idle"

\* what wavRet holds before next() is called
NotCalled == [called |-> FALSE, some |-> FALSE, error |-> "none", fmt |-> "none", n |-> 0]

\* what wavMeta holds before the accessors are called
NoMeta == [read |-> FALSE, sample_rate |-> 0, duration |-> 0, channels |-> 0]

\* no WAV file is being read
WavIdle ==
    /\ wav = [sample_format |-> "none", bits_per_sample |-> 0, sample_rate |-> 0,
              channels |-> 0, data |-> <<>>]
    /\ wavOpen = "idle"
    /\ wavMeta = NoMeta
    /\ wavPos = 0
    /\ wavRet = NotCalled
    /\ wavCalls = 0

\* Option<State>::None
NoState == [some |-> FALSE, format |-> "none", samples |-> 0, i |-> 0, frame |-> 0]

\* no WebM file is being read
WebmIdle ==
    /\ state = NoState
    /\ events = <<>>
    /\ sent = <<>>
    /\ frames = <<>>
    /\ yielded = <<>>
    /\ webmRet = "idle"

\* no Decoder is being constructed
DecoderIdle ==
    /\ labels = <<>>
    /\ dec = [ok |-> FALSE]
    /\ argm = <<>>
    /\ text = <<>>
    /\ dpc = "idle"

---------------------------------------------------------------------------
(* The decoder's client: construct a Decoder, then decode a path.  decode  *)
(* takes &self and Decoder has no interior mutability, so a behaviour      *)
(* follows one call; repeated calls on one Decoder are followed in infer.  *)

InitDecoder ==
    /\ labels \in Vocabularies
    /\ dec = [ok |-> FALSE]
    /\ argm = <<>>
    /\ text = <<>>
    /\ dpc = "init"
    /\ AudioIdle
    /\ InferIdle
    /\ SttIdle
    /\ WavIdle
    /\ WebmIdle

\* Decoder::new(labels)
New ==
    /\ dpc = "init"
    /\ dec' = DecoderNew(labels)
    /\ dpc' = IF dec'.ok THEN "constructed" ELSE "failed"
    /\ UNCHANGED <<labels, argm, text>>
    /\ UNCHANGED <<audioVars, inferVars, sttVars, wavVars, webmVars>>

\* decoder.decode(&path)
Decode ==
    /\ dpc = "constructed"
    /\ \E path \in Paths(Len(dec.labels)) :
          /\ argm' = path
          /\ text' = decode(dec, path)
    /\ dpc' = "decoded"
    /\ UNCHANGED <<labels, dec>>
    /\ UNCHANGED <<audioVars, inferVars, sttVars, wavVars, webmVars>>

NextDecoder == New \/ Decode

SpecDecoder == InitDecoder /\ [][NextDecoder]_vars

---------------------------------------------------------------------------
(* The audio entry points read_audio and transcode_audio, called on a path *)

Err(e) == [done |-> TRUE, ok |-> FALSE, error |-> e]

InitAudio ==
    /\ aop \in {"read_audio", "transcode_audio"}
    /\ ext \in Extensions
    /\ opened = FALSE
    /\ stream = [channels |-> 1, rate |-> 0, items |-> <<>>]
    /\ avg = [done |-> FALSE]
    /\ ares = [done |-> FALSE]
    /\ resampled = FALSE
    /\ outFile = [exists |-> FALSE, complete |-> FALSE]
    /\ apc = "dispatch"
    /\ DecoderIdle
    /\ InferIdle
    /\ SttIdle
    /\ WavIdle
    /\ WebmIdle

\* a dispatch that opens the file before looking at the extension
DispatchOpenFirst ==
    /\ apc = "dispatch"
    /\ opened' = TRUE
    /\ \/ /\ ~Supported(ext)
          /\ ares' = Err("unsupported extension")
          /\ apc' = "done"
          /\ UNCHANGED stream
       \/ /\ Supported(ext)
          /\ stream' \in Streams
          /\ apc' = "stream"
          /\ UNCHANGED ares
    /\ UNCHANGED <<aop, ext, avg, resampled, outFile>>
    /\ UNCHANGED <<decoderVars, inferVars, sttVars, wavVars, webmVars>>

\* read_audio (mod.rs 94-106): the extension is looked at first; only a
\* supported one leads to WavContext::from_path / WebmContext::from_path,
\* which opens the file and may fail
Dispatch ==
    /\ apc = "dispatch"
    /\ \/ /\ ext = "<none>"
          /\ ares' = Err("missing extension")
          /\ apc' = "done"
          /\ UNCHANGED <<opened, stream>>
       \/ /\ ext = "<not utf-8>"
          /\ ares' = Err("invalid extension")
          /\ apc' = "done"
          /\ UNCHANGED <<opened, stream>>
       \/ /\ ext \notin {"<none>", "<not utf-8>"}
          /\ ~Supported(ext)
          /\ ares' = Err("unsupported extension")
          /\ apc' = "done"
          /\ UNCHANGED <<opened, stream>>
       \/ /\ Supported(ext)
          /\ opened' = TRUE
          /\ ares' = Err("from_path")
          /\ apc' = "done"
          /\ UNCHANGED stream
       \/ /\ Supported(ext)
          /\ opened' = TRUE
          /\ stream' \in Streams
          /\ apc' = "stream"
          /\ UNCHANGED ares
    /\ UNCHANGED <<aop, ext, avg, resampled, outFile>>
    /\ UNCHANGED <<decoderVars, inferVars, sttVars, wavVars, webmVars>>

\* where read_audio's caller goes on: transcode_audio writes only after Ok
AfterRead(res) ==
    IF aop = "transcode_audio" /\ res.ok THEN "write" ELSE "done"

\* a read_audio_stream without the early return for equal rates
ReadAudioStreamNoShortcut ==
    /\ apc = "stream"
    /\ avg' = average_channels(stream)
    /\ \/ /\ ~avg'.ok
          /\ ares' = avg'
          /\ UNCHANGED resampled
       \/ /\ avg'.ok
          /\ resampled' = TRUE
          /\ \/ ares' = Err("resample")
             \/ ares' = [done |-> TRUE, ok |-> TRUE,
                         samples |-> Resampled(stream.rate, sample_rate, avg'.samples)]
    /\ apc' = AfterRead(ares')
    /\ UNCHANGED <<aop, ext, opened, stream, outFile>>
    /\ UNCHANGED <<decoderVars, inferVars, sttVars, wavVars, webmVars>>

\* read_audio_stream (mod.rs 85-92)
ReadAudioStream ==
    /\ apc = "stream"
    /\ avg' = average_channels(stream)
    /\ \/ /\ ~avg'.ok
          /\ ares' = avg'
          /\ UNCHANGED resampled
       \/ /\ avg'.ok
          /\ stream.rate = sample_rate
          /\ ares' = avg'
          /\ UNCHANGED resampled
       \/ /\ avg'.ok
          /\ stream.rate # sample_rate
          /\ resampled' = TRUE
          /\ \/ ares' = Err("resample")
             \/ ares' = [done |-> TRUE, ok |-> TRUE,
                         samples |-> Resampled(stream.rate, sample_rate, avg'.samples)]
    /\ apc' = AfterRead(ares')
    /\ UNCHANGED <<aop, ext, opened, stream, outFile>>
    /\ UNCHANGED <<decoderVars, inferVars, sttVars, wavVars, webmVars>>

\* write_wav (wav.rs 59-72), reached by transcode_audio after read_audio's Ok
WriteWav ==
    /\ apc = "write"
    /\ \/ /\ ares' = Err("WavWriter::create")
          /\ UNCHANGED outFile
       \/ /\ ares' = Err("write_sample")
          /\ outFile' = [exists |-> TRUE, complete |-> FALSE]
       \/ /\ ares' = [done |-> TRUE, ok |-> TRUE]
          /\ outFile' = [exists |-> TRUE, complete |-> TRUE]
    /\ apc' = "done"
    /\ UNCHANGED <<aop, ext, opened, stream, avg, resampled>>
    /\ UNCHANGED <<decoderVars, inferVars, sttVars, wavVars, webmVars>>

NextAudio == Dispatch \/ ReadAudioStream \/ WriteWav

SpecAudio == InitAudio /\ [][NextAudio]_vars

---------------------------------------------------------------------------
(* Silero::infer on a batch of nbatch items.  The engine (session.run) is  *)
(* external: it fails or returns a tensor of any shape, and each slice     *)
(* tensor[.., j, i] is drawn when the loop reads it (it is read once).     *)

InitInfer ==
    /\ labels \in InferVocabularies
    /\ dec = DecoderNew(labels)
    /\ argm = <<>>
    /\ text = <<>>
    /\ dpc = "constructed"
    /\ nbatch \in 0..MaxBatch
    /\ tshape = [labels |-> 0, tokens |-> 0, batches |-> 0]
    /\ ii = 0
    /\ jj = 0
    /\ tokens = <<>>
    /\ probs = <<>>
    /\ token = 0
    /\ ipaths = <<>>
    /\ itexts = <<>>
    /\ ires = [done |-> FALSE]
    /\ ipc = "run"
    /\ AudioIdle
    /\ SttIdle
    /\ WavIdle
    /\ WebmIdle

\* the shapes the engine may answer with
Shapes ==
    [labels : {0, Len(labels), Len(labels) + 1},
     tokens : 0..MaxTokens,
     batches : 0..(MaxBatch + 1)]

\* lib.rs 60-79: session.run, the three axis lengths (a slice at index 0 of
\* an empty axis panics) and the two ensure! checks
RunEngine ==
    /\ ipc = "run"
    /\ \/ /\ ires' = Err("session.run")
          /\ ipc' = "done"
          /\ UNCHANGED tshape
       \/ /\ tshape' \in Shapes
          /\ IF tshape'.labels = 0 \/ tshape'.tokens = 0 \/ tshape'.batches = 0
             THEN ires' = Err("panic") /\ ipc' = "done"
             ELSE IF tshape'.labels # Len(dec.labels)
             THEN ires' = Err("ensure num_labels") /\ ipc' = "done"
             ELSE IF tshape'.batches # nbatch
             THEN ires' = Err("ensure num_batches") /\ ipc' = "done"
             ELSE ires' = ires /\ ipc' = "loop"
    /\ UNCHANGED <<nbatch, ii, jj, tokens, probs, token, ipaths, itexts>>
    /\ UNCHANGED <<decoderVars, audioVars, sttVars, wavVars, webmVars>>

\* lib.rs 81-89: one iteration of the inner loop
NextToken ==
    /\ ipc = "loop"
    /\ ii < tshape.batches
    /\ jj < tshape.tokens
    /\ \E ps \in ScoreVectors(tshape.labels) :
          /\ probs' = ps
          /\ token' = ArgMax(ps)
          /\ tokens' = Append(tokens, ArgMax(ps))
          /\ ipaths' = IF jj = 0 THEN Append(ipaths, <<ArgMax(ps)>>)
                       ELSE [ipaths EXCEPT ![ii + 1] = Append(@, ArgMax(ps))]
    /\ jj' = jj + 1
    /\ UNCHANGED <<nbatch, tshape, ii, itexts, ires, ipc>>
    /\ UNCHANGED <<decoderVars, audioVars, sttVars, wavVars, webmVars>>

\* lib.rs 90-92: the inner loop is over: decode, push, clear
FinishItem ==
    /\ ipc = "loop"
    /\ ii < tshape.batches
    /\ jj = tshape.tokens
    /\ itexts' = Append(itexts, decode(dec, tokens))
    /\ tokens' = ClearTokens(tokens)
    /\ ii' = ii + 1
    /\ jj' = 0
    /\ UNCHANGED <<nbatch, tshape, probs, token, ipaths, ires, ipc>>
    /\ UNCHANGED <<decoderVars, audioVars, sttVars, wavVars, webmVars>>

\* lib.rs 94: Ok(batch)
ReturnTexts ==
    /\ ipc = "loop"
    /\ ii = tshape.batches
    /\ ires' = [done |-> TRUE, ok |-> TRUE, texts |-> itexts]
    /\ ipc' = "done"
    /\ UNCHANGED <<nbatch, tshape, ii, jj, tokens, probs, token, ipaths, itexts>>
    /\ UNCHANGED <<decoderVars, audioVars, sttVars, wavVars, webmVars>>

NextInfer == RunEngine \/ NextToken \/ FinishItem \/ ReturnTexts

SpecInfer == InitInfer /\ [][NextInfer]_vars

---------------------------------------------------------------------------
(* src/lib.rs: Silero::process_batch and Silero::stt.  read_audio and      *)
(* infer are followed by their results here: read_audio fails or gives n   *)
(* samples; infer fails, panics, or returns one text per item in order.    *)
(* The text infer decodes for a chunk is the opaque tag <<input, chunk>>.  *)

\* Silero::new: batch_size (10) and max_sequence_length (172800), scaled down
batch_size == 2
max_sequence_length == 2

\* most input paths of a call
MaxInputs == 3
\* most samples read_audio gives for an input
MaxSamples == 4

\* the file stems with a text file of their own; several inputs may share one
\* (a.wav and a.webm, x/a.wav and y/a.wav)
OutputStems == {"a", "b"}

\* file_stem().to_str() of an input path
Stems == OutputStems \cup {"<not utf-8>"}

\* text left in a file by an earlier run
OldText == <<0, 0>>

Min(a, b) == IF a <= b THEN a ELSE b

\* samples.chunks(max_sequence_length), for the n samples of input i
NumChunks(n) == (n + max_sequence_length - 1) \div max_sequence_length

\* the samples of an input pushed as one chunk, however many they are
ChunksUnsplit(i, n) ==
    IF n = 0 THEN <<>> ELSE <<[inp |-> i, no |-> 1, len |-> n]>>

Chunks(i, n) ==
    [c \in 1..NumChunks(n) |->
        [inp |-> i, no |-> c,
         len |-> Min(max_sequence_length, n - (c - 1) * max_sequence_length)]]

\* an input tensor of batch_size rows whatever the batch holds
InputShapeFixed(b) == <<batch_size, max_sequence_length>>

\* lib.rs 60: Array::zeros((batch.len(), self.max_sequence_length)), the shape
\* of the tensor infer hands to session.run
InputShape(b) == <<Len(b), max_sequence_length>>

\* lib.rs 61-65: the cells input[[i, j]] infer assigns for a batch, one per
\* sample of each item
Writes(b) == {<<i, j>> \in (0..(Len(b) - 1)) \X (0..(MaxSamples - 1)) : j < b[i + 1].len}

\* the text infer returns for a chunk
TextOf(chunk) == <<chunk.inp, chunk.no>>

\* infer(batch) as process_batch sees it: an error, a panic (a slice at
\* index 0 of an empty axis), or the texts of the items in order; a batch of
\* no items never gives Ok (its batch axis is empty or fails the ensure!)
InferOutcomes(b) ==
    {[ok |-> FALSE, error |-> "infer", texts |-> <<>>],
     [ok |-> FALSE, error |-> "panic", texts |-> <<>>]}
    \cup (IF b = <<>> THEN {}
          ELSE {[ok |-> TRUE, error |-> "none",
                 texts |-> [k \in 1..Len(b) |-> TextOf(b[k])]]})

\* w.write_all(result.as_bytes()) on the file opened for append
AppendText(f, out, t) == [f EXCEPT ![out].content = Append(@, t)]

\* the first k iterations of process_batch's loop over results.iter().zip(outputs)
RECURSIVE AppendFirst(_, _, _, _)
AppendFirst(f, results, outs, k) ==
    IF k = 0 THEN f
    ELSE AppendText(AppendFirst(f, results, outs, k - 1), outs[k], results[k])

\* process_batch (lib.rs 97-104): what it returns and the files it leaves;
\* opening a file for append or writing to it may fail at any item
ProcessBatchOutcomes(b, outs, f) ==
    UNION {
        IF ~r.ok THEN {[ok |-> FALSE, error |-> r.error, fs |-> f]}
        ELSE LET n == Min(Len(r.texts), Len(outs)) IN
             {[ok |-> TRUE, error |-> "none", fs |-> AppendFirst(f, r.texts, outs, n)]}
             \cup {[ok |-> FALSE, error |-> "append",
                    fs |-> AppendFirst(f, r.texts, outs, k - 1)] : k \in 1..n}
        : r \in InferOutcomes(b)}

\* an error that is dropped instead of returned
QuestionIgnored(ok, cont) == cont

\* the `?` operator: go on when Ok, return the error otherwise
Question(ok, cont) == IF ok THEN cont ELSE "done"

Ok == [done |-> TRUE, ok |-> TRUE]

InitStt ==
    /\ inputs \in UNION {[1..n -> Stems] : n \in 0..MaxInputs}
    /\ fs \in [OutputStems -> {[exists |-> FALSE, content |-> <<>>],
                               [exists |-> TRUE, content |-> <<OldText>>]}]
    /\ si = 1
    /\ nread = <<>>
    /\ chunks = <<>>
    /\ batch = <<>>
    /\ outputs = <<>>
    /\ submitted = <<>>
    /\ tensors = <<>>
    /\ failure = "none"
    /\ sres = [done |-> FALSE]
    /\ spc = "input"
    /\ DecoderIdle
    /\ AudioIdle
    /\ InferIdle
    /\ WavIdle
    /\ WebmIdle

\* lib.rs 109-121: read the input, name its text file, create/truncate it
ReadInput ==
    /\ spc = "input"
    /\ si <= Len(inputs)
    /\ \/ /\ failure' = "read_audio"
          /\ sres' = Err("read_audio")
          /\ spc' = Question(FALSE, "chunks")
          /\ UNCHANGED <<fs, nread, chunks>>
       \/ /\ inputs[si] \notin OutputStems
          /\ failure' = "invalid input"
          /\ sres' = Err("invalid input")
          /\ spc' = Question(FALSE, "chunks")
          /\ UNCHANGED <<fs, nread, chunks>>
       \/ /\ inputs[si] \in OutputStems
          /\ failure' = "create"
          /\ sres' = Err("create")
          /\ spc' = Question(FALSE, "chunks")
          /\ UNCHANGED <<fs, nread, chunks>>
       \/ /\ inputs[si] \in OutputStems
          /\ \E n \in 0..MaxSamples :
                /\ nread' = Append(nread, n)
                /\ chunks' = Chunks(si, n)
          /\ fs' = [fs EXCEPT ![inputs[si]] = [exists |-> TRUE, content |-> <<>>]]
          /\ spc' = "chunks"
          /\ UNCHANGED <<failure, sres>>
    /\ UNCHANGED <<inputs, si, batch, outputs, submitted, tensors>>
    /\ UNCHANGED <<decoderVars, audioVars, inferVars, wavVars, webmVars>>

\* what a process_batch outcome does to stt: `?` returns an error, a panic
\* ends the call
AfterProcessBatch(o, cont) ==
    /\ fs' = o.fs
    /\ failure' = IF o.ok \/ o.error = "panic" THEN failure ELSE o.error
    /\ sres' = IF o.ok THEN sres ELSE Err(o.error)
    /\ spc' = IF o.error = "panic" THEN "done" ELSE Question(o.ok, cont)

\* lib.rs 122-130: one iteration of the chunk loop
PushChunk ==
    /\ spc = "chunks"
    /\ chunks # <<>>
    /\ LET b1 == Append(batch, Head(chunks))
           o1 == Append(outputs, inputs[si])
       IN  IF Len(b1) = batch_size
           THEN \E o \in ProcessBatchOutcomes(b1, o1, fs) :
                   /\ submitted' = Append(submitted, b1)
                   /\ tensors' = Append(tensors, InputShape(b1))
                   /\ AfterProcessBatch(o, "chunks")
                   /\ batch' = IF o.ok THEN <<>> ELSE b1
                   /\ outputs' = IF o.ok THEN <<>> ELSE o1
           ELSE /\ batch' = b1
                /\ outputs' = o1
                /\ UNCHANGED <<fs, submitted, tensors, failure, sres, spc>>
    /\ chunks' = Tail(chunks)
    /\ UNCHANGED <<inputs, si, nread>>
    /\ UNCHANGED <<decoderVars, audioVars, inferVars, wavVars, webmVars>>

\* the chunk loop is over: the next input
NextInput ==
    /\ spc = "chunks"
    /\ chunks = <<>>
    /\ si' = si + 1
    /\ spc' = "input"
    /\ UNCHANGED <<inputs, fs, nread, chunks, batch, outputs, submitted, tensors, failure, sres>>
    /\ UNCHANGED <<decoderVars, audioVars, inferVars, wavVars, webmVars>>

\* lib.rs 132-135: the flush after the loop, and Ok(())
FinalFlush ==
    /\ spc = "input"
    /\ si > Len(inputs)
    /\ IF inputs # <<>>
       THEN \E o \in ProcessBatchOutcomes(batch, outputs, fs) :
               /\ submitted' = Append(submitted, batch)
               /\ tensors' = Append(tensors, InputShape(batch))
               /\ fs' = o.fs
               /\ failure' = IF o.ok \/ o.error = "panic" THEN failure ELSE o.error
               /\ sres' = IF o.ok THEN Ok ELSE Err(o.error)
       ELSE /\ sres' = Ok
            /\ UNCHANGED <<fs, submitted, tensors, failure>>
    /\ spc' = "done"
    /\ UNCHANGED <<inputs, si, nread, chunks, batch, outputs>>
    /\ UNCHANGED <<decoderVars, audioVars, inferVars, wavVars, webmVars>>

NextStt == ReadInput \/ PushChunk \/ NextInput \/ FinalFlush

SpecStt == InitStt /\ [][NextStt]_vars

---------------------------------------------------------------------------
(* src/audio/wav.rs: WavContext, read the way read_audio_stream reads a    *)
(* stream: the accessors first, then next() until it returns None or an    *)
(* Err.  The reader (hound::WavReader) is external: it opens the file or   *)
(* fails, and gives the samples of the data chunk or a read error.         *)

\* most samples of a WAV file
MaxWavSamples == 2

\* (spec.sample_format, spec.bits_per_sample) of the files the reader opens
WavFormats == {<<"Int", 8>>, <<"Int", 16>>, <<"Int", 24>>, <<"Int", 32>>, <<"Float", 32>>}

\* what the reader's samples() iterator gives: a value or a read error
RawItems == {[err |-> FALSE, v |-> 1], [err |-> FALSE, v |-> -1], [err |-> TRUE, v |-> 0]}

WavFiles ==
    {[sample_format |-> f[1], bits_per_sample |-> f[2], sample_rate |-> r,
      channels |-> c, data |-> d] :
        f \in WavFormats, r \in Rates, c \in 1..MaxChannels,
        d \in UNION {[1..n -> RawItems] : n \in 0..MaxWavSamples}}

\* the values of Option<Result<Sample>> next() returns
WavNone == [called |-> TRUE, some |-> FALSE, error |-> "none", fmt |-> "none", n |-> 0]

WavErr(e) == [called |-> TRUE, some |-> TRUE, error |-> e, fmt |-> "none", n |-> 0]

WavOk(fmt, v) == [called |-> TRUE, some |-> TRUE, error |-> "none", fmt |-> fmt, n |-> v]

\* self.0.samples().next()?.map(variant).map_err(Into::into): None at the end
\* of the data, else the next sample in the variant, or the read error
ReadSample(file, pos, variant) ==
    IF pos >= Len(file.data) THEN [ret |-> WavNone, pos |-> pos]
    ELSE IF file.data[pos + 1].err THEN [ret |-> WavErr("read"), pos |-> pos + 1]
    ELSE [ret |-> WavOk(variant, file.data[pos + 1].v), pos |-> pos + 1]

\* a next() that looks for the end of the data before the encoding
WavNextEndFirst(file, pos) ==
    LET enc == <<file.sample_format, file.bits_per_sample>> IN
    IF pos >= Len(file.data) THEN [ret |-> WavNone, pos |-> pos]
    ELSE CASE enc = <<"Int", 16>> -> ReadSample(file, pos, "S16")
           [] enc = <<"Int", 32>> -> ReadSample(file, pos, "S32")
           [] enc = <<"Float", 32>> -> ReadSample(file, pos, "F32")
           [] OTHER -> [ret |-> WavErr("unsupported sample format"), pos |-> pos]

\* WavContext::next (wav.rs 33-56): the match on the encoding comes first,
\* and its last arm is Some(Err(..)) whatever the data holds
WavNext(file, pos) ==
    LET enc == <<file.sample_format, file.bits_per_sample>> IN
    CASE enc = <<"Int", 16>> -> ReadSample(file, pos, "S16")
      [] enc = <<"Int", 32>> -> ReadSample(file, pos, "S32")
      [] enc = <<"Float", 32>> -> ReadSample(file, pos, "F32")
      [] OTHER -> [ret |-> WavErr("unsupported sample format"), pos |-> pos]

InitWav ==
    /\ wav \in WavFiles
    /\ wavOpen = "no"
    /\ wavMeta = NoMeta
    /\ wavPos = 0
    /\ wavRet = NotCalled
    /\ wavCalls = 0
    /\ DecoderIdle
    /\ AudioIdle
    /\ InferIdle
    /\ SttIdle
    /\ WebmIdle

\* WavContext::from_path (wav.rs 11-13): File::open and WavReader::new, each
\* followed by `?`; nothing here looks at the encoding
WavFromPath ==
    /\ wavOpen = "no"
    /\ wavOpen' \in {"failed", "open"}
    /\ UNCHANGED <<wav, wavMeta, wavPos, wavRet, wavCalls>>
    /\ UNCHANGED <<decoderVars, audioVars, inferVars, sttVars, webmVars>>

\* the accessors (wav.rs 16-28), called before the first next()
WavAccessors ==
    /\ wavOpen = "open"
    /\ ~wavMeta.read
    /\ wavMeta' = [read |-> TRUE, sample_rate |-> wav.sample_rate,
                   duration |-> Len(wav.data) \div wav.channels,
                   channels |-> wav.channels]
    /\ UNCHANGED <<wav, wavOpen, wavPos, wavRet, wavCalls>>
    /\ UNCHANGED <<decoderVars, audioVars, inferVars, sttVars, webmVars>>

\* one call of next() by average_channels, which stops at None and at an Err
WavNextCall ==
    /\ wavOpen = "open"
    /\ wavMeta.read
    /\ ~wavRet.called \/ (wavRet.some /\ wavRet.error = "none")
    /\ LET r == WavNext(wav, wavPos) IN
          /\ wavRet' = r.ret
          /\ wavPos' = r.pos
    /\ wavCalls' = wavCalls + 1
    /\ UNCHANGED <<wav, wavOpen, wavMeta>>
    /\ UNCHANGED <<decoderVars, audioVars, inferVars, sttVars, webmVars>>

NextWav == WavFromPath \/ WavAccessors \/ WavNextCall

SpecWav == InitWav /\ [][NextWav]_vars

---------------------------------------------------------------------------
(* src/audio/webm.rs: WebmContext::next_sample, read the way               *)
(* read_audio_stream reads a stream: next() until it returns None or an    *)
(* Err.  The demuxer and the codec are external: each read_event gives any *)
(* event or fails, and the codec answers a packet with an error or with a  *)
(* frame of any format and sample count.  Sample p of the frame decoded    *)
(* from event number k is the value [frame |-> k, pos |-> p].              *)

\* most container events read from a file
MaxEvents == 3
\* most samples of a frame (info.samples * info.map.len())
MaxFrame == 2

\* WebmContext::stream_index, the stream from_path selected
stream_index == 0

\* the stream indices packets carry
StreamIndices == {0, 1}

\* the sample formats a decoded frame declares (U8 stands for every format
\* other than S16, S32 and F32)
FrameFormats == {"S16", "S32", "F32", "U8"}

Ev(kind, idx, res, format, samples) ==
    [kind |-> kind, stream_index |-> idx, res |-> res, format |-> format, samples |-> samples]

\* what read_event() gives: an error, Event::Eof, another event, or
\* Event::NewPacket with the packet's stream and, for a packet of the
\* selected stream, what the codec will answer to it
WebmEvents ==
    {Ev("error", 0, "none", "none", 0), Ev("eof", 0, "none", "none", 0),
     Ev("other", 0, "none", "none", 0)}
    \cup {Ev("packet", idx, "none", "none", 0) : idx \in StreamIndices \ {stream_index}}
    \cup {Ev("packet", stream_index, res, "none", 0) : res \in {"send_packet", "receive_frame"}}
    \cup {Ev("packet", stream_index, "frame", f, n) : f \in FrameFormats, n \in 0..MaxFrame}

\* a State whose cursor starts past the first sample
StateNewSkipFirst(frame, format, samples) ==
    [some |-> TRUE, format |-> format, samples |-> samples, i |-> 1, frame |-> frame]

\* State::new (webm.rs 23-30)
StateNew(frame, format, samples) ==
    [some |-> TRUE, format |-> format, samples |-> samples, i |-> 0, frame |-> frame]

\* a filter that lets the packets of every stream through
SelectedAny(ev) == TRUE

\* webm.rs 110: packet.stream_index != self.stream_index means `continue`
Selected(ev) == ev.stream_index = stream_index

\* webm.rs 116-121: the formats the match on info.format has an arm for
Matched(format) == format \in {"S16", "S32", "F32"}

\* webm.rs 97-101: the formats a sample can be built from
Emittable(format) == format \in {"S16", "F32"}

\* Sample::S16 / Sample::F32 of state.frame.buf.as_slice(0)?[state.i]
SampleAt(st) == [fmt |-> st.format, frame |-> st.frame, pos |-> st.i]

InitWebm ==
    /\ state = NoState
    /\ events = <<>>
    /\ sent = <<>>
    /\ frames = <<>>
    /\ yielded = <<>>
    /\ webmRet = "running"
    /\ DecoderIdle
    /\ AudioIdle
    /\ InferIdle
    /\ SttIdle
    /\ WavIdle

\* webm.rs 95-103: a frame is being emitted and the cursor is inside it.
\* as_slice(0)? may fail, for the whole frame, so at its first sample
EmitSample ==
    /\ webmRet = "running"
    /\ state.some
    /\ state.i < state.samples
    /\ \/ /\ Emittable(state.format)
          /\ yielded' = Append(yielded, SampleAt(state))
          /\ state' = [state EXCEPT !.i = @ + 1]
          /\ UNCHANGED webmRet
       \/ /\ Emittable(state.format)
          /\ state.i = 0
          /\ webmRet' = "as_slice"
          /\ UNCHANGED <<state, yielded>>
       \/ /\ ~Emittable(state.format)
          /\ webmRet' = "unsupported sample format"
          /\ UNCHANGED <<state, yielded>>
    /\ UNCHANGED <<events, sent, frames>>
    /\ UNCHANGED <<decoderVars, audioVars, inferVars, sttVars, wavVars>>

\* webm.rs 104-106: the cursor has reached the frame's sample count
DiscardFrame ==
    /\ webmRet = "running"
    /\ state.some
    /\ state.i >= state.samples
    /\ state' = NoState
    /\ UNCHANGED <<events, sent, frames, yielded, webmRet>>
    /\ UNCHANGED <<decoderVars, audioVars, inferVars, sttVars, wavVars>>

\* webm.rs 113-123: a packet of the selected stream, event number k
DecodePacket(ev, k) ==
    /\ sent' = Append(sent, k)
    /\ IF ev.res = "send_packet"
       THEN webmRet' = "send_packet" /\ UNCHANGED <<state, frames>>
       ELSE IF ev.res = "receive_frame"
       THEN webmRet' = "receive_frame" /\ UNCHANGED <<state, frames>>
       ELSE /\ frames' = Append(frames, [event |-> k, format |-> ev.format,
                                         samples |-> ev.samples])
            /\ IF Matched(ev.format)
               THEN state' = StateNew(k, ev.format, ev.samples) /\ UNCHANGED webmRet
               ELSE webmRet' = "unsupported sample format" /\ UNCHANGED state

\* webm.rs 108-127: no frame is held, so the next container event is read
ReadEvent ==
    /\ webmRet = "running"
    /\ ~state.some
    /\ Len(events) < MaxEvents
    /\ \E ev \in WebmEvents :
          /\ events' = Append(events, ev)
          /\ CASE ev.kind = "error" ->
                    webmRet' = "read_event" /\ UNCHANGED <<state, sent, frames>>
               [] ev.kind = "eof" ->
                    webmRet' = "eof" /\ UNCHANGED <<state, sent, frames>>
               [] ev.kind = "other" ->
                    UNCHANGED <<state, sent, frames, webmRet>>
               [] ev.kind = "packet" ->
                    IF Selected(ev)
                    THEN DecodePacket(ev, Len(events) + 1)
                    ELSE UNCHANGED <<state, sent, frames, webmRet>>
    /\ UNCHANGED yielded
    /\ UNCHANGED <<decoderVars, audioVars, inferVars, sttVars, wavVars>>

NextWebm == EmitSample \/ DiscardFrame \/ ReadEvent

SpecWebm == InitWebm /\ [][NextWebm]_vars

---------------------------------------------------------------------------
(* Claims about the decoder, checked under SpecDecoder *)

\* the number of entries of ls equal to s
Count(ls, s) == Cardinality({k \in 1..Len(ls) : ls[k] = s})

StartsWithSpace(s) == s # <<>> /\ s[1] = " "

\* the first token of the path that is not the blank is the sentinel
SentinelFirst(d, path) ==
    \E k \in 1..Len(path) :
        /\ path[k] = d.two_idx
        /\ \A j \in 1..(k - 1) : path[j] = d.blank_idx

InsertAt(path, k, tok) == SubSeq(path, 1, k) \o <<tok>> \o SubSeq(path, k + 1, Len(path))

RemoveAt(path, k) == SubSeq(path, 1, k - 1) \o SubSeq(path, k + 1, Len(path))

Decoded(ls, path) == dpc = "decoded" /\ labels = ls /\ argm = path

\* C1 as stated: Decoder::new succeeds exactly when the vocabulary holds
\* exactly one "_" and exactly one "2", and fails for every other vocabulary.
C1_ExactlyOne ==
    dpc # "init" =>
        (dec.ok <=> (Count(labels, <<"_">>) = 1 /\ Count(labels, <<"2">>) = 1))

\* the 0-based index of the first entry of ls equal to s
IsFirstIndexOf(idx, ls, s) ==
    /\ idx \in 0..(Len(ls) - 1)
    /\ ls[idx + 1] = s
    /\ \A j \in 1..idx : ls[j] # s

\* C1 amended: Decoder::new fails exactly when "_" or "2" is absent; a
\* vocabulary in which either occurs more than once is accepted, and the
\* first occurrence of each is the index recorded.
C1_AtLeastOne ==
    dpc # "init" =>
        /\ dec.ok <=> (Count(labels, <<"_">>) >= 1 /\ Count(labels, <<"2">>) >= 1)
        /\ dec.ok => /\ IsFirstIndexOf(dec.blank_idx, labels, <<"_">>)
                     /\ IsFirstIndexOf(dec.two_idx, labels, <<"2">>)

\* a vocabulary with a repeated token has been accepted
C1_Witness ==
    /\ dpc = "constructed"
    /\ dec.ok
    /\ (Count(labels, <<"_">>) > 1 \/ Count(labels, <<"2">>) > 1)

\* C2 as stated: when the first non-blank token is the sentinel, the
\* returned text starts with a space (decode([2,1]) starts with " ").
C2_TextStartsWithSpace ==
    (dpc = "decoded" /\ SentinelFirst(dec, argm)) => StartsWithSpace(text)

\* C2 amended: when the first non-blank token is the sentinel, a space is
\* pushed as the first unit, but the final trim removes it: the returned text
\* never starts with a space, and decode([2,1]) = "a" for ["_","a","2","b"].
C2_SpaceUnitTrimmed ==
    (dpc = "decoded" /\ SentinelFirst(dec, argm)) =>
        /\ Pieces(dec, argm)[1] = <<" ">>
        /\ ~StartsWithSpace(text)
        /\ (labels = ExampleLabels /\ argm = <<2, 1>>) => text = <<"a">>

\* decode([2,1]) has returned for the example vocabulary
C2_Witness == Decoded(ExampleLabels, <<2, 1>>) /\ text = <<"a">>

\* C3 as stated: decode([1,0,1,3]) = "aab" and decode([1,1,3]) = "ab" for
\* the vocabulary ["_","a","2","b"].
C3_BlankBreaksAdjacency ==
    /\ Decoded(ExampleLabels, <<1, 0, 1, 3>>) => text = <<"a", "a", "b">>
    /\ Decoded(ExampleLabels, <<1, 1, 3>>) => text = <<"a", "b">>

\* C3 amended: decode([1,0,1,3]) = "ab", as decode([1,1,3]) = "ab": the blank
\* produces no unit, so the two "a" units are adjacent and collapse.
C3_BlankDoesNotBreakAdjacency ==
    /\ Decoded(ExampleLabels, <<1, 0, 1, 3>>) => text = <<"a", "b">>
    /\ Decoded(ExampleLabels, <<1, 1, 3>>) => text = <<"a", "b">>

\* decode([1,0,1,3]) has returned for the example vocabulary
C3_Witness == Decoded(ExampleLabels, <<1, 0, 1, 3>>) /\ text = <<"a", "b">>

\* C4: inserting a blank token at any position of the path, or deleting any
\* blank token of it, does not change the text decode returns.
C4_BlankInvisible ==
    dpc = "decoded" =>
        /\ \A k \in 0..Len(argm) :
              decode(dec, InsertAt(argm, k, dec.blank_idx)) = text
        /\ \A k \in 1..Len(argm) :
              argm[k] = dec.blank_idx => decode(dec, RemoveAt(argm, k)) = text

\* decode([1,1,0,3]) has returned: a blank between produced units
C4_Witness ==
    /\ Decoded(ExampleLabels, <<1, 1, 0, 3>>)
    /\ text = decode(dec, <<1, 0, 3>>)
    /\ text = <<"a", "b">>

---------------------------------------------------------------------------
(* Claims about the audio helpers, checked under SpecAudio *)

NoErrItem(items) == \A k \in 1..Len(items) : ~items[k].err

\* C5: for a stream of N >= 1 channels, average_channels returns Ok exactly
\* when the error-free stream's length is divisible by N; a stream ending in
\* the middle of a frame gives the error "invalid number of samples" and no
\* buffer; a stream with an Err item gives an error.
C5_PartialFrameFails ==
    avg.done =>
        /\ NoErrItem(stream.items) =>
              (avg.ok <=> Len(stream.items) % stream.channels = 0)
        /\ (NoErrItem(stream.items) /\ Len(stream.items) % stream.channels # 0) =>
              /\ avg = Err("invalid number of samples")
              /\ ares = avg
        /\ ~NoErrItem(stream.items) => (~avg.ok /\ ares = avg)

\* a 2-channel stream of 3 samples has been refused
C5_Witness ==
    /\ avg.done
    /\ stream.channels = 2
    /\ Len(stream.items) = 3
    /\ NoErrItem(stream.items)
    /\ ~avg.ok

\* C6: on a missing or unsupported extension read_audio returns an error
\* without opening the input, and transcode_audio never creates the output.
C6_BadExtensionNoIo ==
    ~Supported(ext) =>
        /\ ~opened
        /\ ~outFile.exists
        /\ apc \in {"dispatch", "done"}
        /\ apc = "done" => (ares.done /\ ~ares.ok)

\* transcode_audio has returned for an input named *.mp3
C6_Witness ==
    /\ aop = "transcode_audio"
    /\ ext = "mp3"
    /\ apc = "done"
    /\ ~ares.ok

---------------------------------------------------------------------------
(* Claims about infer, checked under SpecInfer *)

\* C9: the text of batch item i is decode of item i's own token path only:
\* the token buffer is empty when an item starts, items with equal paths get
\* equal texts whatever was decoded in between, and infer returns these texts.
C9_ItemsIndependent ==
    /\ Len(itexts) = ii
    /\ \A i \in 1..Len(itexts) : itexts[i] = decode(dec, ipaths[i])
    /\ \A i, k \in 1..Len(itexts) : ipaths[i] = ipaths[k] => itexts[i] = itexts[k]
    /\ (ipc = "loop" /\ jj = 0) => tokens = <<>>
    /\ (ipc = "loop" /\ jj > 0) => tokens = ipaths[ii + 1]
    /\ (ires.done /\ ires.ok) => ires.texts = itexts

\* infer has returned "a" for the first item and "" for the second
C9_Witness ==
    /\ ires.done
    /\ ires.ok
    /\ Len(itexts) = 2
    /\ itexts[1] = <<"a">>
    /\ itexts[2] = <<>>
    /\ ipaths[1] # ipaths[2]

\* C10: the token chosen for a (frame, item) is an index of a maximal score
\* of the slice, and the lowest such index when several scores are maximal.
C10_ArgMaxFirstMaximum ==
    probs # <<>> =>
        /\ token \in 0..(Len(probs) - 1)
        /\ \A k \in 1..Len(probs) : probs[k] <= probs[token + 1]
        /\ \A k \in 1..token : probs[k] < probs[token + 1]
        /\ tokens # <<>> => tokens[Len(tokens)] = token

\* a slice whose maximum occurs twice has been reduced to its first index
C10_Witness ==
    /\ probs = <<1, 2, 2>>
    /\ token = 1
    /\ \E k \in 1..Len(probs) : k - 1 # token /\ probs[k] = probs[token + 1]
    /\ tokens # <<>>

---------------------------------------------------------------------------
(* Claims about stt, checked under SpecStt *)

\* the texts of the chunks of input i, each once and in chunk order
OwnTexts(i) == [c \in 1..NumChunks(nread[i]) |-> <<i, c>>]

SttOk == sres.done /\ sres.ok

\* no two inputs share a text file
DistinctOutputs == \A i, k \in 1..Len(inputs) : inputs[i] = inputs[k] => i = k

\* C7: after stt returns Ok, the text file of every input holds exactly the
\* texts of that input's chunks, each once and in chunk order, nothing of
\* another input and nothing from before the call.
C7_FileHoldsOwnChunks ==
    SttOk =>
        \A i \in 1..Len(inputs) :
            /\ fs[inputs[i]].exists
            /\ fs[inputs[i]].content = OwnTexts(i)

\* C7 for inputs whose text files are pairwise distinct (it holds there)
C7_DistinctOutputsHoldOwnChunks == DistinctOutputs => C7_FileHoldsOwnChunks

\* C8: once a callee of stt has returned an error, stt has returned that
\* error, no further batch is submitted and no file changes; and the step in
\* which infer fails appends nothing.
C8_FailFast ==
    /\ [](failure # "none" => (spc = "done" /\ sres = Err(failure)))
    /\ [][failure # "none" => (fs' = fs /\ submitted' = submitted)]_vars
    /\ [][(failure = "none" /\ failure' = "infer") => fs' = fs]_vars

\* stt has failed after a batch was appended, with inputs left unread
C8_Witness ==
    /\ failure # "none"
    /\ spc = "done"
    /\ si < Len(inputs)
    /\ submitted # <<>>
    /\ \E o \in OutputStems : fs[o].content # <<>> /\ fs[o].content # <<OldText>>

\* the last entry of `submitted` is the flush after the loop (lib.rs 132-134)
FinalFlushed == spc = "done" /\ si > Len(inputs) /\ inputs # <<>>

\* C11 as stated: every input tensor submitted to the engine during stt has
\* the shape [batch_size, max_sequence_length], the final batch included.
C11_FixedInputShape ==
    \A k \in 1..Len(tensors) : tensors[k] = <<batch_size, max_sequence_length>>

\* C11 amended: every input tensor has max_sequence_length columns and as
\* many rows as the batch has chunks: batch_size rows for a batch flushed
\* inside the loop, and fewer than batch_size rows (0 to batch_size - 1) for
\* the final batch of a run.
C11_RowsAreBatchLen ==
    /\ Len(tensors) = Len(submitted)
    /\ \A k \in 1..Len(tensors) :
          /\ tensors[k] = <<Len(submitted[k]), max_sequence_length>>
          /\ IF FinalFlushed /\ k = Len(tensors)
             THEN tensors[k][1] \in 0..(batch_size - 1)
             ELSE tensors[k][1] = batch_size

\* a run has submitted a full batch and then a final batch of one chunk
C11_Witness ==
    /\ FinalFlushed
    /\ Len(tensors) = 2
    /\ tensors[1][1] = batch_size
    /\ tensors[2] = <<1, max_sequence_length>>

---------------------------------------------------------------------------
(* Claims about infer's shape checks, checked under SpecInfer *)

\* session.run has returned a tensor (of the shape tshape)
EngineAnswered ==
    /\ ipc # "run"
    /\ ~(ires.done /\ ~ires.ok /\ ires.error = "session.run")

\* infer has returned an Err (a panic returns nothing)
ReturnedError == ires.done /\ ~ires.ok /\ ires.error # "panic"

ShapeMatches == tshape.labels = Len(dec.labels) /\ tshape.batches = nbatch

NoEmptyAxis == tshape.labels > 0 /\ tshape.tokens > 0 /\ tshape.batches > 0

\* one text per submitted item, in submission order
OneTextPerItem ==
    /\ ires.done
    /\ ires.ok
    /\ Len(ires.texts) = nbatch
    /\ \A i \in 1..nbatch : ires.texts[i] = decode(dec, ipaths[i])

\* C12: whenever the engine output's label axis differs from the vocabulary
\* size or its batch axis differs from the number of submitted items, infer
\* returns an error and decodes and returns no text; when both match, infer
\* returns exactly one text per submitted item, in submission order.
C12_ShapeMismatchIsError ==
    EngineAnswered =>
        /\ ~ShapeMatches => (ReturnedError /\ itexts = <<>> /\ ipaths = <<>>)
        /\ (ShapeMatches /\ ipc = "done") => OneTextPerItem

\* C12 for engine outputs without an empty axis (it holds there)
C12_NonEmptyShapeMismatchIsError == NoEmptyAxis => C12_ShapeMismatchIsError

---------------------------------------------------------------------------
(* Claims about read_audio_stream, checked under SpecAudio *)

\* C13 as stated: resample is called if and only if the stream's rate
\* differs from the target rate; for equal rates read_audio_stream returns
\* the downmixed buffer unchanged.
C13_ResampleIffRateDiffers ==
    avg.done =>
        /\ resampled <=> stream.rate # sample_rate
        /\ (aop = "read_audio" /\ stream.rate = sample_rate) =>
              ares = average_channels(stream)

\* C13 amended: resample is called if and only if the downmix succeeded and
\* the stream's rate differs from the target rate (a failed downmix returns
\* its error before the rates are compared); for equal rates
\* read_audio_stream returns what average_channels returned, unchanged.
C13_ResampleIffDownmixedAndRateDiffers ==
    avg.done =>
        /\ resampled <=> (avg.ok /\ stream.rate # sample_rate)
        /\ (aop = "read_audio" /\ stream.rate = sample_rate) =>
              /\ ares = average_channels(stream)
              /\ ares = avg
        /\ (aop = "read_audio" /\ ~avg.ok) => ares = avg

\* read_audio has returned the two mono values of a stream at the target rate
C13_Witness ==
    /\ aop = "read_audio"
    /\ apc = "done"
    /\ stream.rate = sample_rate
    /\ stream.channels = 2
    /\ ~resampled
    /\ ares.ok
    /\ Len(ares.samples) = 2
    /\ ares.samples[1] # ares.samples[2]

---------------------------------------------------------------------------
(* Claims about Decoder::new, checked under SpecDecoder *)

Contains(ls, s) == \E k \in 1..Len(ls) : ls[k] = s

\* C14: a vocabulary lacking "_" or lacking "2" fails Decoder::new with an
\* error; every vocabulary containing both succeeds, and the recorded blank
\* index and sentinel index point at entries equal to "_" and "2".
C14_ConstructionChecksBothTokens ==
    dpc # "init" =>
        /\ (~Contains(labels, <<"_">>) \/ ~Contains(labels, <<"2">>)) =>
              (dec = [ok |-> FALSE] /\ dpc = "failed")
        /\ (Contains(labels, <<"_">>) /\ Contains(labels, <<"2">>)) =>
              /\ dec.ok
              /\ dec.labels = labels
              /\ dec.blank_idx \in 0..(Len(labels) - 1)
              /\ dec.two_idx \in 0..(Len(labels) - 1)
              /\ labels[dec.blank_idx + 1] = <<"_">>
              /\ labels[dec.two_idx + 1] = <<"2">>

\* the vocabulary ["2","a","_"] has been accepted with indices 2 and 0
C14_Witness ==
    /\ dpc = "constructed"
    /\ labels = << <<"2">>, <<"a">>, <<"_">> >>
    /\ dec.blank_idx = 2
    /\ dec.two_idx = 0

---------------------------------------------------------------------------
(* Claims about average_channels, checked under SpecAudio *)

\* the sum of the float conversions of items first .. first + n - 1 (1-based)
RECURSIVE SumOf(_, _, _)
SumOf(items, first, n) ==
    IF n = 1 THEN to_f32(items[first])
    ELSE FracAdd(SumOf(items, first, n - 1), to_f32(items[first + n - 1]))

\* the arithmetic mean of frame j (0-based) of a stream of N channels
MeanOfFrame(items, N, j) ==
    LET sum == SumOf(items, j * N + 1, N) IN Frac(sum[1], sum[2] * N)

\* C15: for a stream of N channels yielding N*m samples, average_channels
\* returns exactly m mono values in order, the j-th being the arithmetic mean
\* of the float conversions of samples j*N .. j*N+N-1; for N = 1 the output
\* equals the float-converted input sample by sample.
C15_DownmixIsFrameMean ==
    (avg.done /\ NoErrItem(stream.items) /\ Len(stream.items) % stream.channels = 0) =>
        LET N == stream.channels
            m == Len(stream.items) \div N
        IN  /\ avg.ok
            /\ Len(avg.samples) = m
            /\ \A j \in 0..(m - 1) :
                  avg.samples[j + 1] = MeanOfFrame(stream.items, N, j)
            /\ N = 1 => \A j \in 1..m : avg.samples[j] = to_f32(stream.items[j])

\* the stream [1.0, 0.25, -16384/32767, 1.0] of 2 channels has been downmixed
C15_Witness ==
    /\ avg.done
    /\ stream.channels = 2
    /\ stream.items = <<S16(I16Max), F32(1, 4), S16(-16384), S16(I16Max)>>
    /\ avg.ok
    /\ avg.samples = << <<5, 8>>, <<16383, 65534>> >>

---------------------------------------------------------------------------
(* Claims about WavContext, checked under SpecWav *)

\* an encoding next() has an arm for
SupportedEncoding(file) ==
    <<file.sample_format, file.bits_per_sample>>
        \in {<<"Int", 16>>, <<"Int", 32>>, <<"Float", 32>>}

UnsupportedError == WavErr("unsupported sample format")

\* the accessors have returned the file's rate, duration and channel count
MetaRead ==
    wavMeta = [read |-> TRUE, sample_rate |-> wav.sample_rate,
               duration |-> Len(wav.data) \div wav.channels, channels |-> wav.channels]

---------------------------------------------------------------------------
(* Claims about the WebM decode loop, checked under SpecWebm *)

\* the positions 0 .. samples-1 of a frame, in order
PositionsOf(fr) ==
    [p \in 1..fr.samples |-> [fmt |-> fr.format, frame |-> fr.event, pos |-> p - 1]]

\* the concatenation, in packet order, of the positions of the first n frames
RECURSIVE ConcatFrames(_, _)
ConcatFrames(frs, n) ==
    IF n = 0 THEN <<>> ELSE ConcatFrames(frs, n - 1) \o PositionsOf(frs[n])

IsPrefix(a, b) == Len(a) <= Len(b) /\ a = SubSeq(b, 1, Len(a))

\* the sample sequence has ended with an Err
Failed == webmRet \notin {"running", "eof"}

\* C17: the samples yielded are the concatenation, in packet order, of the
\* positions 0..total-1 of the frames decoded from selected-stream packets,
\* each position once: a prefix of it while a frame is being emitted (every
\* earlier frame whole, the current one up to the cursor) and all of it
\* when no frame is held and at end of stream.  The cursor starts at 0,
\* advances by one per emitted sample, never exceeds total, and the frame is
\* discarded exactly when the cursor has reached total (total = 0 included).
C17_FramesEmittedInOrder ==
    /\ [](/\ IsPrefix(yielded, ConcatFrames(frames, Len(frames)))
          /\ state.some =>
                /\ frames # <<>>
                /\ state.frame = frames[Len(frames)].event
                /\ state.samples = frames[Len(frames)].samples
                /\ state.i \in 0..state.samples
                /\ Len(yielded) = Len(ConcatFrames(frames, Len(frames) - 1)) + state.i
          /\ (~state.some /\ ~Failed) =>
                yielded = ConcatFrames(frames, Len(frames)))
    /\ [][(~state.some /\ state'.some) => (state'.i = 0 /\ yielded' = yielded)]_vars
    /\ [][yielded' # yielded =>
              /\ state.some
              /\ state.i < state.samples
              /\ yielded' = Append(yielded, SampleAt(state))
              /\ state' = [state EXCEPT !.i = state.i + 1]]_vars
    /\ [][(state.some /\ state.i = state.samples) =>
              (state' = NoState /\ yielded' = yielded /\ events' = events)]_vars
    /\ [][(state.some /\ ~state'.some) => state.i = state.samples]_vars

\* two frames of two samples each have been emitted in packet order
C17_Witness ==
    /\ Len(frames) = 2
    /\ Len(yielded) = 4
    /\ yielded[1].frame = yielded[2].frame
    /\ yielded[3].frame = yielded[4].frame
    /\ yielded[2].frame < yielded[3].frame
    /\ yielded[1].pos = 0
    /\ yielded[2].pos = 1
    /\ ~state.some

\* event number k is a packet of the selected stream
SelectedPacket(k) ==
    /\ k \in 1..Len(events)
    /\ events[k].kind = "packet"
    /\ events[k].stream_index = stream_index

\* the step reads an event of this kind
Reads(kind) ==
    /\ Len(events') = Len(events) + 1
    /\ events'[Len(events')].kind = kind

\* the step reads a packet of a stream other than the selected one
ReadsOtherStreamPacket ==
    Reads("packet") /\ events'[Len(events')].stream_index # stream_index

\* C18: a packet of a stream other than the selected one is never sent to
\* the codec and contributes no frame and no sample, the loop staying in
\* AwaitingPacket; an Eof event ends the sample sequence with no value and
\* no error, every sample of every frame decoded before it having been
\* yielded.
C18_OtherStreamsSkippedEofEnds ==
    /\ [](/\ \A k \in 1..Len(sent) : SelectedPacket(sent[k])
          /\ \A k \in 1..Len(frames) : SelectedPacket(frames[k].event)
          /\ \A k \in 1..Len(yielded) : SelectedPacket(yielded[k].frame))
    /\ [][ReadsOtherStreamPacket =>
              /\ state = NoState /\ state' = NoState
              /\ sent' = sent /\ frames' = frames /\ yielded' = yielded
              /\ webmRet' = "running"]_vars
    /\ [][Reads("eof") => (webmRet' = "eof" /\ yielded' = yielded)]_vars
    /\ [](webmRet = "eof" =>
              /\ events[Len(events)].kind = "eof"
              /\ ~state.some
              /\ yielded = ConcatFrames(frames, Len(frames)))
    /\ [][webmRet = "eof" => (webmRet' = "eof" /\ yielded' = yielded)]_vars

\* a packet of another stream was skipped, the next packet's frame emitted,
\* and Eof has ended the sequence
C18_Witness ==
    /\ webmRet = "eof"
    /\ Len(events) = 3
    /\ events[1].kind = "packet"
    /\ events[1].stream_index # stream_index
    /\ sent = <<2>>
    /\ Len(yielded) = 2

\* frame number k, of a format no sample can be built from, has ended the
\* stream: nothing was decoded or read after it, nothing of it or of a later
\* packet was yielded, and the sequence has not ended normally
StreamStoppedAt(k) ==
    /\ k = Len(frames)
    /\ Len(events) = frames[k].event
    /\ webmRet # "eof"
    /\ \A y \in 1..Len(yielded) : yielded[y].frame < frames[k].event

\* C19: whenever the codec returns a frame whose format is not S16 or F32
\* (S32 included), the stream fails with an error and yields no sample of
\* that frame and no sample of any later packet.
C19_OtherFormatsFailStream ==
    /\ [](\A k \in 1..Len(frames) :
            ~Emittable(frames[k].format) =>
                /\ StreamStoppedAt(k)
                /\ ~state.some => Failed)
    /\ [][(state.some /\ ~Emittable(state.format)) =>
              (Failed' /\ yielded' = yielded)]_vars

\* C19 for frames that hold a sample, and for formats other than S32 (it
\* holds there)
C19_NonEmptyOtherFormatsFailStream ==
    /\ [](\A k \in 1..Len(frames) :
            (~Emittable(frames[k].format)
                /\ (frames[k].samples > 0 \/ ~Matched(frames[k].format))) =>
                /\ StreamStoppedAt(k)
                /\ ~state.some => Failed)
    /\ [][(state.some /\ ~Emittable(state.format) /\ state.samples > 0) =>
              (Failed' /\ yielded' = yielded)]_vars

---------------------------------------------------------------------------
(* Claims about the sentinel rule of decode, checked under SpecDecoder *)

\* token k of the path is a sentinel arriving after a unit has been produced
SentinelAfterUnit(d, path, k) ==
    /\ path[k] = d.two_idx
    /\ Pieces(d, SubSeq(path, 1, k - 1)) # <<>>

\* the pieces token k adds are the joiner and the unit that was last
DuplicatesLast(d, path, k) ==
    LET before == Pieces(d, SubSeq(path, 1, k - 1)) IN
    Pieces(d, SubSeq(path, 1, k)) = before \o << <<"$">>, before[Len(before)] >>

\* the unit a sentinel at token k re-emits
UnitBefore(d, path, k) ==
    LET before == Pieces(d, SubSeq(path, 1, k - 1)) IN before[Len(before)]

HasChar(str, c) == \E k \in 1..Len(str) : str[k] = c

IsSubstring(a, b) ==
    \E i \in 0..(Len(b) - Len(a)) : SubSeq(b, i + 1, i + Len(a)) = a

NoJoinerInLabels(ls) == \A l \in 1..Len(ls) : ~HasChar(ls[l], "$")

NoWhitespaceIn(str) == \A k \in 1..Len(str) : ~IsWhitespace(str[k])

\* token k of the path pushes a label as a unit
LabelToken(d, path, k) == path[k] # d.two_idx /\ path[k] # d.blank_idx

\* C20 as stated: for every vocabulary and path, a sentinel after a unit
\* pushes a joiner and re-emits the last unit, which is never a joiner
\* marker; the unit appears doubled in the final text (decode([1,2]) = "aa"
\* for ["_","a","2","b"]); and only joiner markers are removed, never a
\* character of a label unit.
C20_SentinelDoublesUnitInText ==
    dpc = "decoded" =>
        /\ \A k \in 1..Len(argm) :
              SentinelAfterUnit(dec, argm, k) =>
                  /\ DuplicatesLast(dec, argm, k)
                  /\ UnitBefore(dec, argm, k) # <<"$">>
                  /\ IsSubstring(UnitBefore(dec, argm, k) \o UnitBefore(dec, argm, k), text)
        /\ \A k \in 1..Len(argm) :
              (LabelToken(dec, argm, k) /\ HasChar(dec.labels[argm[k] + 1], "$")) =>
                  HasChar(text, "$")
        /\ (labels = ExampleLabels /\ argm = <<1, 2>>) => text = <<"a", "a">>

\* C20 amended: a sentinel after a unit pushes "$" and re-emits the unit
\* that was last.  When no label holds a '$', that unit is not a joiner, the
\* unit, the joiner and the duplicate all survive the collapse, and a unit
\* without whitespace appears doubled in the text (decode([1,2]) = "aa").
\* A doubled space at an end of the text is trimmed (decode([2,2]) = ""),
\* and every '$' is removed from the text, those of labels included.
C20_SentinelDoublesUnitBeforeTrim ==
    dpc = "decoded" =>
        /\ \A k \in 1..Len(argm) :
              SentinelAfterUnit(dec, argm, k) =>
                  LET x == UnitBefore(dec, argm, k) IN
                  /\ DuplicatesLast(dec, argm, k)
                  /\ NoJoinerInLabels(labels) =>
                        /\ x # <<"$">>
                        /\ IsSubstring(x \o <<"$">> \o x, Collapse(Pieces(dec, argm)))
                        /\ NoWhitespaceIn(x) => IsSubstring(x \o x, text)
        /\ ~HasChar(text, "$")
        /\ (labels = ExampleLabels /\ argm = <<1, 2>>) => text = <<"a", "a">>
        /\ (labels = ExampleLabels /\ argm = <<2, 2>>) => text = <<>>

\* decode([1,2]) has returned "aa" for the example vocabulary
C20_Witness == Decoded(ExampleLabels, <<1, 2>>) /\ text = <<"a", "a">>

---------------------------------------------------------------------------
(* Claims about the batches of stt, checked under SpecStt *)

\* C21: every batch stt hands to process_batch carries between 1 and
\* batch_size items, whatever the inputs: also when the number of chunks is
\* a multiple of batch_size and when every input yields no samples.
C21_NoEmptyBatch ==
    \A k \in 1..Len(submitted) : Len(submitted[k]) \in 1..batch_size

\* C21 for the batches flushed inside the chunk loop, and the upper bound
\* for every batch (it holds there)
C21_LoopBatchesAreFull ==
    \A k \in 1..Len(submitted) :
        IF FinalFlushed /\ k = Len(submitted)
        THEN Len(submitted[k]) \in 0..(batch_size - 1)
        ELSE Len(submitted[k]) = batch_size

\* the chunks of the batches submitted so far, in order
RECURSIVE Flatten(_, _)
Flatten(bs, n) == IF n = 0 THEN <<>> ELSE Flatten(bs, n - 1) \o bs[n]

NoRepeat(seq) == \A i, k \in 1..Len(seq) : seq[i] = seq[k] => i = k

RECURSIVE SumLens(_, _)
SumLens(cs, n) == IF n = 0 THEN 0 ELSE SumLens(cs, n - 1) + cs[n].len

\* the chunks of input i among a sequence of chunks
ChunksOf(seq, i) == SelectSeq(seq, LAMBDA c : c.inp = i)

\* C22: at every point of stt the pending batch and the pending output
\* paths have equal length, entry k of the paths being the text file of the
\* input chunk k came from; every pending chunk holds between 1 and
\* max_sequence_length samples; both lists are emptied together right after
\* a flush inside the loop.  Hence infer assigns only cells inside the
\* tensor, one per sample of each chunk, the chunks of an input hold all its
\* samples, and no chunk is submitted twice.
C22_PendingListsAligned ==
    /\ [](/\ Len(batch) = Len(outputs)
          /\ \A k \in 1..Len(batch) :
                /\ batch[k].inp \in 1..Len(inputs)
                /\ outputs[k] = inputs[batch[k].inp]
                /\ batch[k].len \in 1..max_sequence_length
          /\ spc # "done" => Len(batch) < batch_size
          /\ \A k \in 1..Len(submitted) :
                /\ \A w \in Writes(submitted[k]) :
                      w[1] < tensors[k][1] /\ w[2] < tensors[k][2]
                /\ Cardinality(Writes(submitted[k]))
                      = SumLens(submitted[k], Len(submitted[k]))
          /\ NoRepeat(Flatten(submitted, Len(submitted)))
          /\ spc # "done" => NoRepeat(Flatten(submitted, Len(submitted)) \o batch)
          /\ \A i \in 1..Len(nread) :
                SumLens(Chunks(i, nread[i]), Len(Chunks(i, nread[i]))) = nread[i]
          /\ SttOk =>
                \A i \in 1..Len(inputs) :
                    ChunksOf(Flatten(submitted, Len(submitted)), i) = Chunks(i, nread[i]))
    /\ [][(submitted' # submitted /\ spc' # "done") =>
              (batch' = <<>> /\ outputs' = <<>>)]_vars
    /\ [][batch' # batch =>
              \/ batch' = <<>> /\ outputs' = <<>>
              \/ /\ Len(batch') = Len(batch) + 1
                 /\ Len(outputs') = Len(outputs) + 1
                 /\ SubSeq(batch', 1, Len(batch)) = batch
                 /\ SubSeq(outputs', 1, Len(outputs)) = outputs]_vars

\* a full batch has been flushed and a chunk of the second input is pending
\* with the second input's text file
C22_Witness ==
    /\ spc = "chunks"
    /\ Len(submitted) = 1
    /\ Len(batch) = 1
    /\ batch[1].inp = 2
    /\ outputs = <<inputs[2]>>
    /\ inputs[1] # inputs[2]

====
